---- MODULE Spec2Model ----
(***************************************************************************)
(* A model of APICrawler (src/crawler.py): the breadth-first traversal of  *)
(* crawl_subpages/process_page, the per-page extraction of parse_api_page  *)
(* and parse_with_ai, and the merge of combine_specs.                      *)
(*                                                                         *)
(* A URL is a record [host, path, frag]; frag = "" is a URL without '#'.   *)
(* The web site and the AI service are the environment: every response is  *)
(* an input drawn when the request is made.                                *)
(***************************************************************************)
EXTENDS Integers, Sequences, FiniteSets

VARIABLES
    base_url,       \* self.base_url
    max_urls,       \* self.max_urls; 0 is None
    visited_urls,   \* self.visited_urls
    api_docs,       \* self.api_docs, an insertion-ordered dict: sequence of [url, spec]
    api_doc_urls,   \* crawl_subpages: api_doc_urls
    to_visit,       \* crawl_subpages: to_visit
    tasks,          \* the URLs dispatched in the current round, in gather order
    results,        \* the outcome of each task of the current round
    pc,             \* the position of crawl()
    doc_idx,        \* crawl(): index of the next url of doc_urls
    merged,         \* the document crawl()/combine_specs returned
    rounds,         \* iterations of the while loop of crawl_subpages started so far
    classified,     \* URLs for which process_page returned the url (fetched and classified)
    saw_external,   \* a link to another host was discovered by process_page
    cause,          \* what raised out of crawl(): "none", "fetch" or "ai"
    docs_before,    \* the fragments of api_docs as they were when combine_specs was called
    saw_visited,    \* a link to a URL of visited_urls was discovered by process_page
    again,          \* crawl() was invoked a second time on this APICrawler
    html,           \* the page handed to the function applied on its own
    answer,         \* what that function returned
    ai_called       \* parse_api_page called parse_with_ai for that page

vars == <<base_url, max_urls, visited_urls, api_docs, api_doc_urls, to_visit, tasks,
          results, pc, doc_idx, merged, rounds, classified, saw_external,
          cause, docs_before, saw_visited, again, html, answer, ai_called>>

crawl_vars == <<base_url, max_urls, visited_urls, api_doc_urls, to_visit, tasks,
                results, doc_idx, rounds, classified, saw_external, cause, saw_visited>>

\* the second invocation and the functions applied on their own
call_vars == <<again, html, answer, ai_called>>

---------------------------------------------------------------------------
(* Bounds of the model *)

NumPages == 2       \* pages per host
MaxLinks == 2       \* links on one page
MaxUrlsBound == 2   \* largest max_urls tried
MaxDocs == 3        \* fragments handed to combine_specs
MaxHeadings == 1    \* headings without a phrase before the heading that has one
MaxLines == 2       \* lines of a code block

\* crawler.py 304: the length a summary is cut to
SummaryLength == 50

---------------------------------------------------------------------------
(* URLs *)

BaseHost == "a"
OtherHost == "x"
Hosts == {BaseHost, OtherHost}
Pages == 1..NumPages
Frags == {"", "s"}
Urls == [host : Hosts, path : Pages, frag : Frags]

\* an href: host "" is a relative reference, path 0 is an empty path ("#s")
Hrefs ==
    {h \in [host : {""} \cup Hosts, path : 0..NumPages, frag : Frags] :
        /\ h.host # "" => h.path # 0
        /\ h.host # "" => h.frag = ""
        /\ h.host = OtherHost => h.path = 1}

LinkSets == {s \in SUBSET Hrefs : Cardinality(s) <= MaxLinks}

\* urljoin(url, href): url itself for an empty href; otherwise the reference's host
\* and path when it has them, and always the reference's fragment
UrlJoin(url, href) ==
    IF href.host = "" /\ href.path = 0 /\ href.frag = "" THEN url
    ELSE [host |-> IF href.host = "" THEN url.host ELSE href.host,
          path |-> IF href.path = 0 THEN url.path ELSE href.path,
          frag |-> href.frag]

\* if '#' in url: url = url.split('#')[0]
StripFragment(u) == IF u.frag # "" THEN [u EXCEPT !.frag = ""] ELSE u

\* urlparse(url).netloc
Netloc(u) == u.host

InSeq(x, s) == \E i \in 1..Len(s) : s[i] = x

---------------------------------------------------------------------------
(* Text: a str is a sequence of characters, each a one-character string; a   *)
(* character outside ASCII is written by its code point ("U+6587" is one     *)
(* character)                                                                *)

UpperLetters == <<"A", "B", "C", "D", "E", "F", "G", "H", "I", "J", "K", "L", "M", "N",
                  "O", "P", "Q", "R", "S", "T", "U", "V", "W", "X", "Y", "Z">>
LowerLetters == <<"a", "b", "c", "d", "e", "f", "g", "h", "i", "j", "k", "l", "m", "n",
                  "o", "p", "q", "r", "s", "t", "u", "v", "w", "x", "y", "z">>

LowerChar(c) ==
    IF \E i \in DOMAIN UpperLetters : UpperLetters[i] = c
    THEN LowerLetters[CHOOSE i \in DOMAIN UpperLetters : UpperLetters[i] = c]
    ELSE c
UpperChar(c) ==
    IF \E i \in DOMAIN LowerLetters : LowerLetters[i] = c
    THEN UpperLetters[CHOOSE i \in DOMAIN LowerLetters : LowerLetters[i] = c]
    ELSE c

\* s.lower(), s.upper()
lower(s) == [i \in 1..Len(s) |-> LowerChar(s[i])]
upper(s) == [i \in 1..Len(s) |-> UpperChar(s[i])]

\* sub in text
Contains(text, sub) ==
    \E k \in 0..(Len(text) - Len(sub)) : \A i \in 1..Len(sub) : text[k + i] = sub[i]

\* s.split(sep) for a separator of one character
RECURSIVE split(_, _)
split(s, sep) ==
    IF \E i \in 1..Len(s) : s[i] = sep
    THEN LET k == CHOOSE i \in 1..Len(s) : s[i] = sep /\ \A j \in 1..(i - 1) : s[j] # sep
         IN  <<SubSeq(s, 1, k - 1)>> \o split(SubSeq(s, k + 1, Len(s)), sep)
    ELSE <<s>>

\* line.strip().split(): the words between runs of blanks
Words(line) == SelectSeq(split(line, " "), LAMBDA w : w # << >>)

\* s.strip(chars)
RECURSIVE strip(_, _)
strip(s, chars) ==
    IF s = << >> THEN s
    ELSE IF s[1] \in chars THEN strip(Tail(s), chars)
    ELSE IF s[Len(s)] \in chars THEN strip(SubSeq(s, 1, Len(s) - 1), chars)
    ELSE s

RECURSIVE Join(_, _)
Join(strs, sep) ==
    IF strs = << >> THEN << >>
    ELSE IF Len(strs) = 1 THEN strs[1]
    ELSE strs[1] \o <<sep>> \o Join(Tail(strs), sep)

---------------------------------------------------------------------------
(* process_page *)

\* the parsed page as is_api_doc_page sees it: an indicator phrase in the title,
\* in a heading, in the full text; a code/pre element present
Soups ==
    {s \in [title : BOOLEAN, heading : BOOLEAN, code : BOOLEAN, text : BOOLEAN] :
        (s.title \/ s.heading) => s.text}

is_api_doc_page(soup) ==
    \/ soup.title
    \/ soup.heading
    \/ (soup.code /\ soup.text)

\* crawler.py 169-177, as written in the source
api_indicators ==
    {<<"e", "n", "d", "p", "o", "i", "n", "t">>,
     <<"a", "p", "i", " ", "r", "e", "f", "e", "r", "e", "n", "c", "e">>,
     <<"a", "p", "i", " ", "d", "o", "c", "u", "m", "e", "n", "t", "a", "t", "i", "o",
       "n">>,
     <<"r", "e", "s", "t", " ", "a", "p", "i">>,
     <<"h", "t", "t", "p", " ", "r", "e", "q", "u", "e", "s", "t">>,
     <<"h", "t", "t", "p", " ", "r", "e", "s", "p", "o", "n", "s", "e">>,
     <<"p", "a", "r", "a", "m", "e", "t", "e", "r", "s">>,
     <<"r", "e", "s", "p", "o", "n", "s", "e", " ", "b", "o", "d", "y">>,
     <<"r", "e", "q", "u", "e", "s", "t", " ", "b", "o", "d", "y">>,
     <<"a", "u", "t", "h", "e", "n", "t", "i", "c", "a", "t", "i", "o", "n">>,
     <<"a", "u", "t", "h", "o", "r", "i", "z", "a", "t", "i", "o", "n">>,
     <<"U+63A5", "U+53E3", "U+6587", "U+6863">>,
     <<"A", "P", "I", "U+6587", "U+6863">>,
     <<"U+63A5", "U+53E3", "U+8BF4", "U+660E">>,
     <<"U+63A5", "U+53E3", "U+5B9A", "U+4E49">>,
     <<"U+8BF7", "U+6C42", "U+53C2", "U+6570">>,
     <<"U+54CD", "U+5E94", "U+53C2", "U+6570">>,
     <<"U+8FD4", "U+56DE", "U+53C2", "U+6570">>,
     <<"U+8BA4", "U+8BC1", "U+65B9", "U+5F0F">>,
     <<"U+8C03", "U+7528", "U+65B9", "U+6CD5">>,
     <<"H", "T", "T", "P", "U+8BF7", "U+6C42">>,
     <<"H", "T", "T", "P", "U+54CD", "U+5E94">>}

\* any(indicator in text.lower() for indicator in api_indicators)
HasIndicator(text) == \E indicator \in api_indicators : Contains(lower(text), indicator)

\* soup.get_text(): the text of the title, of the headings and of the rest
get_text(page) == page.title \o Join(page.headings, "\n") \o page.body

\* the parsed page as is_api_doc_page looks at it; a page without a title
\* element is a page with an empty title
BeautifulSoup(page) ==
    [title |-> HasIndicator(page.title),
     heading |-> \E i \in 1..Len(page.headings) : HasIndicator(page.headings[i]),
     code |-> page.code,
     text |-> HasIndicator(get_text(page))]

\* a link filter without the test of the host
FollowLinksAnyHost(url, hrefs, visited, base_domain) ==
    {StripFragment(UrlJoin(url, h)) : h \in hrefs} \ visited

\* a link filter without the test against the visited set
FollowLinksRevisit(url, hrefs, visited, base_domain) ==
    {u \in {StripFragment(UrlJoin(url, h)) : h \in hrefs} : Netloc(u) = base_domain}

\* crawler.py 141-152: the links of a page that process_page adds to to_visit
FollowLinks(url, hrefs, visited, base_domain) ==
    {u \in {StripFragment(UrlJoin(url, h)) : h \in hrefs} :
        Netloc(u) = base_domain /\ u \notin visited}

\* what session.get gives: a page, a non-200 status, a non-HTML content type,
\* an aiohttp.ClientError/asyncio.TimeoutError, or another exception
FetchOutcomes == {"ok", "status", "nothtml", "clienterr", "exc"}

Pending(url) == [kind |-> "pending", url |-> url]
NoneResult(url) == [kind |-> "none", url |-> url]
ExcResult(url) == [kind |-> "exc", url |-> url]
UrlResult(url) == [kind |-> "url", url |-> url]

---------------------------------------------------------------------------
(* Fragments and combine_specs *)

Param(n, l, r) == [name |-> n, in |-> l, required |-> r]
\* the parameter lists the AI service may return
ParamLists ==
    {<< >>,
     <<Param("a", "query", TRUE)>>,
     <<Param("b", "query", TRUE)>>,
     <<Param("a", "path", TRUE)>>,
     <<Param("a", "query", TRUE), Param("a", "path", TRUE)>>,
     <<Param("a", "query", FALSE), Param("a", "query", TRUE)>>}

Operation(s, d, r, ps) ==
    [summary |-> s, description |-> d, parameters |-> ps, responses |-> r]
Operations ==
    {Operation(x[1], x[2], x[3], ps) :
        x \in {<<"s1", "d1", "r1">>, <<"s2", "d2", "r2">>}, ps \in ParamLists}

EmptyDict == [k \in {} |-> k]
SingleOp(path, method, op) ==
    [has_paths |-> TRUE, paths |-> [p \in {path} |-> [m \in {method} |-> op]]]

\* a fragment is the dict parse_with_ai returns; has_paths: 'paths' in spec
Fragments ==
    {SingleOp("/users", m, op) : m \in {"get", "post"}, op \in Operations}
    \cup {SingleOp("/items", "get", Operation("s1", "d1", "r1", << >>)),
          [has_paths |-> TRUE, paths |-> EmptyDict],
          [has_paths |-> TRUE, paths |-> [p \in {"/users"} |-> EmptyDict]],
          [has_paths |-> FALSE, paths |-> EmptyDict]}

\* the fragments the AI service returns during a crawl
CrawlFragments ==
    {SingleOp("/users", "get",
              Operation("s1", "d1", "r1", <<Param("a", "query", TRUE)>>)),
     SingleOp("/users", "get",
              Operation("s2", "d2", "r2", <<Param("b", "query", TRUE)>>))}

\* (p.get('name', ''), p.get('in', ''))
ParamKey(p) == <<p.name, p.in>>

\* a merge that tells parameters apart by name alone
MergeParametersByName(existing, incoming) ==
    LET existing_names == {existing[i].name : i \in 1..Len(existing)}
    IN  existing \o SelectSeq(incoming, LAMBDA p : p.name \notin existing_names)

\* crawler.py 469-476: existing_params is computed once, before the loop that appends
MergeParameters(existing, incoming) ==
    LET existing_params == {ParamKey(existing[i]) : i \in 1..Len(existing)}
    IN  existing \o SelectSeq(incoming, LAMBDA p : ParamKey(p) \notin existing_params)

\* a merge that also takes the summary of the incoming operation
MergeOperationLastSummary(existing_op, operation) ==
    [existing_op EXCEPT
        !.parameters = MergeParameters(existing_op.parameters, operation.parameters),
        !.summary = operation.summary]

\* crawler.py 465-476: only the parameter list of the existing operation changes
MergeOperation(existing_op, operation) ==
    [existing_op EXCEPT
        !.parameters = MergeParameters(existing_op.parameters, operation.parameters)]

\* a merge that replaces the methods of a path already present
MergeMethodsOverwrite(old, methods) == methods

\* crawler.py 464-479
MergeMethods(old, methods) ==
    [m \in DOMAIN old \cup DOMAIN methods |->
        IF m \in DOMAIN methods
        THEN IF m \in DOMAIN old THEN MergeOperation(old[m], methods[m]) ELSE methods[m]
        ELSE old[m]]

\* crawler.py 456-479: one iteration of the loop over self.api_docs.values()
MergeSpec(combined_paths, spec) ==
    IF ~spec.has_paths THEN combined_paths
    ELSE [p \in DOMAIN combined_paths \cup DOMAIN spec.paths |->
            IF p \in DOMAIN spec.paths
            THEN MergeMethods(IF p \in DOMAIN combined_paths
                              THEN combined_paths[p] ELSE EmptyDict,
                              spec.paths[p])
            ELSE combined_paths[p]]

\* combined_paths after the first n fragments of docs
RECURSIVE CombinedPaths(_, _)
CombinedPaths(docs, n) ==
    IF n = 0 THEN EmptyDict ELSE MergeSpec(CombinedPaths(docs, n - 1), docs[n].spec)

Defines(spec, p, m) ==
    spec.has_paths /\ p \in DOMAIN spec.paths /\ m \in DOMAIN spec.paths[p]

\* the index of the first fragment of docs that defines path p, method m
FirstDefining(docs, p, m) ==
    CHOOSE i \in 1..Len(docs) :
        /\ Defines(docs[i].spec, p, m)
        /\ \A j \in 1..(i - 1) : ~Defines(docs[j].spec, p, m)

\* the document combine_specs returns
combine_specs(docs, base) ==
    [openapi |-> "3.0.0",
     info |-> [title |-> "API Documentation", version |-> "1.0.0", description |-> base],
     paths |-> CombinedPaths(docs, Len(docs))]

\* self.api_docs after combine_specs: combined_paths[path][method] is the very
\* operation object of the first fragment that defined it (line 479), so the
\* appends of line 476 land in that fragment
DocsAfterCombine(docs) ==
    LET c == CombinedPaths(docs, Len(docs))
        Holds(p, m) == p \in DOMAIN c /\ m \in DOMAIN c[p]
        Aliased(i) ==
            LET ps == docs[i].spec.paths
            IN  [docs[i] EXCEPT !.spec.paths =
                    [p \in DOMAIN ps |->
                        [m \in DOMAIN ps[p] |->
                            IF Holds(p, m) /\ FirstDefining(docs, p, m) = i
                            THEN c[p][m] ELSE ps[p][m]]]]
        RECURSIVE Build(_)
        Build(n) == IF n = 0 THEN << >>
                    ELSE Append(Build(n - 1),
                                IF docs[n].spec.has_paths THEN Aliased(n) ELSE docs[n])
    IN  Build(Len(docs))

\* self.api_docs[url] = spec
DictSet(docs, url, spec) ==
    IF \E i \in 1..Len(docs) : docs[i].url = url
    THEN [i \in 1..Len(docs) |->
            IF docs[i].url = url THEN [url |-> url, spec |-> spec] ELSE docs[i]]
    ELSE Append(docs, [url |-> url, spec |-> spec])

NoDocument == [none |-> TRUE]
NoPage == [none |-> TRUE]
NoAnswer == [none |-> TRUE]

---------------------------------------------------------------------------
(* crawl_subpages *)

IterationOrders(S) ==
    {t \in [1..Cardinality(S) -> S] : \A i, j \in 1..Cardinality(S) : i # j => t[i] # t[j]}

BoundReached(urls, max) == max # 0 /\ Len(urls) >= max

\* the loop over the results without the test of the bound inside it
RECURSIVE CollectResultsNoBreak(_, _, _, _)
CollectResultsNoBreak(res, i, urls, max) ==
    IF i > Len(res) THEN urls
    ELSE IF res[i].kind = "url" /\ ~InSeq(res[i].url, urls)
                                /\ ~InSeq(StripFragment(res[i].url), urls)
         THEN CollectResultsNoBreak(res, i + 1, Append(urls, res[i].url), max)
         ELSE CollectResultsNoBreak(res, i + 1, urls, max)

\* crawler.py 101-112: the loop over the results of one round, from result i on
RECURSIVE CollectResults(_, _, _, _)
CollectResults(res, i, urls, max) ==
    IF i > Len(res) THEN urls
    ELSE IF res[i].kind # "url" THEN CollectResults(res, i + 1, urls, max)
    ELSE LET result == res[i].url
         IN  IF ~InSeq(result, urls)
             THEN IF InSeq(StripFragment(result), urls)
                  THEN CollectResults(res, i + 1, urls, max)          \* continue
                  ELSE LET appended == Append(urls, result)
                       IN  IF BoundReached(appended, max) THEN appended   \* break
                           ELSE CollectResults(res, i + 1, appended, max)
             ELSE IF BoundReached(urls, max) THEN urls                    \* break
                  ELSE CollectResults(res, i + 1, urls, max)

Init ==
    /\ base_url \in {u \in Urls : u.host = BaseHost /\ u.path = 1}
    /\ max_urls \in 0..MaxUrlsBound
    /\ visited_urls = {}
    /\ api_docs = << >>
    /\ api_doc_urls = << >>
    /\ to_visit = {}
    /\ tasks = << >>
    /\ results = << >>
    /\ pc = "start"
    /\ doc_idx = 1
    /\ merged = NoDocument
    /\ rounds = 0
    /\ classified = {}
    /\ saw_external = FALSE
    /\ cause = "none"
    /\ docs_before = << >>
    /\ saw_visited = FALSE
    /\ again = FALSE
    /\ html = NoPage
    /\ answer = NoAnswer
    /\ ai_called = FALSE

\* crawler.py 81-83
CrawlSubpagesBegin ==
    /\ pc = "start"
    /\ api_doc_urls' = <<base_url>>
    /\ to_visit' = {base_url}
    /\ pc' = "loop"
    /\ UNCHANGED <<base_url, max_urls, visited_urls, api_docs, tasks, results, doc_idx,
                   merged, rounds, classified, saw_external, saw_visited, cause, docs_before>>
    /\ UNCHANGED call_vars

\* a round that dispatches its tasks without marking their URLs visited
DispatchRoundUnmarked ==
    /\ pc = "loop"
    /\ to_visit # {}
    /\ \E order \in IterationOrders(to_visit \ visited_urls) :
          /\ tasks' = order
          /\ results' = [i \in 1..Len(order) |-> Pending(order[i])]
    /\ to_visit' = {}
    /\ rounds' = rounds + 1
    /\ pc' = "gather"
    /\ UNCHANGED <<base_url, max_urls, visited_urls, api_docs, api_doc_urls, doc_idx,
                   merged, classified, saw_external, saw_visited, cause, docs_before>>
    /\ UNCHANGED call_vars

\* crawler.py 86-95: one more round; the set is iterated in any order
DispatchRound ==
    /\ pc = "loop"
    /\ to_visit # {}
    /\ \E order \in IterationOrders(to_visit \ visited_urls) :
          /\ tasks' = order
          /\ results' = [i \in 1..Len(order) |-> Pending(order[i])]
    /\ visited_urls' = visited_urls \cup to_visit
    /\ to_visit' = {}
    /\ rounds' = rounds + 1
    /\ pc' = "gather"
    /\ UNCHANGED <<base_url, max_urls, api_docs, api_doc_urls, doc_idx, merged,
                   classified, saw_external, saw_visited, cause, docs_before>>
    /\ UNCHANGED call_vars

\* crawler.py 141-152: what the link loop finds on a page with these hrefs
ExtractLinks(url, hrefs, visited, base_domain) ==
    [links |-> FollowLinks(url, hrefs, visited, base_domain),
     external |-> \E h \in hrefs : Netloc(UrlJoin(url, h)) # base_domain,
     revisit |-> \E h \in hrefs :
                    /\ Netloc(UrlJoin(url, h)) = base_domain
                    /\ StripFragment(UrlJoin(url, h)) \in visited]

\* crawler.py 118-162: task i of the round runs to its end; the awaits are before
\* the link loop, which runs with every URL of the round already in visited_urls
ProcessPage(i) ==
    /\ pc = "gather"
    /\ results[i].kind = "pending"
    /\ LET url == tasks[i]
       IN \E outcome \in FetchOutcomes :
            IF outcome = "ok"
            THEN \E found \in {ExtractLinks(url, hrefs, visited_urls, Netloc(base_url)) :
                                 hrefs \in LinkSets},
                    is_doc \in {is_api_doc_page(soup) : soup \in Soups} :
                    /\ to_visit' = to_visit \cup found.links
                    /\ saw_external' = (saw_external \/ found.external)
                    /\ saw_visited' = (saw_visited \/ found.revisit)
                    /\ IF is_doc
                       THEN /\ results' = [results EXCEPT ![i] = UrlResult(url)]
                            /\ classified' = classified \cup {url}
                       ELSE /\ results' = [results EXCEPT ![i] = NoneResult(url)]
                            /\ UNCHANGED classified
            ELSE /\ results' = [results EXCEPT ![i] =
                        IF outcome = "exc" THEN ExcResult(url) ELSE NoneResult(url)]
                 /\ UNCHANGED <<to_visit, saw_external, saw_visited, classified>>
    /\ UNCHANGED <<base_url, max_urls, visited_urls, api_docs, api_doc_urls, tasks, pc,
                   doc_idx, merged, rounds, cause, docs_before>>
    /\ UNCHANGED call_vars

\* crawler.py 98-114: gather has every result; collect them, then test the bound
GatherResults ==
    /\ pc = "gather"
    /\ \A i \in 1..Len(results) : results[i].kind # "pending"
    /\ api_doc_urls' = CollectResults(results, 1, api_doc_urls, max_urls)
    /\ pc' = IF BoundReached(api_doc_urls', max_urls) THEN "parse" ELSE "loop"
    /\ tasks' = << >>
    /\ results' = << >>
    /\ UNCHANGED <<base_url, max_urls, visited_urls, api_docs, to_visit, doc_idx, merged,
                   rounds, classified, saw_external, saw_visited, cause, docs_before>>
    /\ UNCHANGED call_vars

\* crawler.py 86, 116, 503: the frontier is empty, crawl_subpages returns
CrawlSubpagesReturn ==
    /\ pc = "loop"
    /\ to_visit = {}
    /\ pc' = "parse"
    /\ UNCHANGED <<base_url, max_urls, visited_urls, api_docs, api_doc_urls, to_visit,
                   tasks, results, doc_idx, merged, rounds, classified,
                   saw_external, saw_visited, cause, docs_before>>
    /\ UNCHANGED call_vars

---------------------------------------------------------------------------
(* crawl: parse_api_page, parse_with_ai, combine_specs *)

\* what the AI service does: a usable answer, an answer the inner try rejects or
\* that holds no spec (None), or an exception of the client (error, timeout)
AiOutcomes == {"spec", "unparsable", "raise"}

\* crawler.py 318-446: the outer handler re-raises (line 444)
parse_with_ai(ai, spec) ==
    CASE ai = "spec" -> [kind |-> "spec", spec |-> spec]
      [] ai = "unparsable" -> [kind |-> "none", spec |-> spec]
      [] ai = "raise" -> [kind |-> "raise", spec |-> spec]

\* crawler.py 203-257: no content-type test; only ClientError and TimeoutError are caught
parse_api_page(fetch, ai, spec) ==
    CASE fetch = "status" -> [kind |-> "none", spec |-> spec]
      [] fetch = "clienterr" -> [kind |-> "none", spec |-> spec]
      [] fetch = "exc" -> [kind |-> "fetchraise", spec |-> spec]
      [] fetch \in {"ok", "nothtml"} -> parse_with_ai(ai, spec)

\* crawler.py 505-507: one iteration of the loop over doc_urls
ParseApiPage ==
    /\ pc = "parse"
    /\ doc_idx <= Len(api_doc_urls)
    /\ LET url == api_doc_urls[doc_idx]
       IN \E fetch \in FetchOutcomes, ai \in AiOutcomes, spec \in CrawlFragments :
            LET r == parse_api_page(fetch, ai, spec)
            IN  /\ api_docs' = IF r.kind = "spec" THEN DictSet(api_docs, url, r.spec)
                               ELSE api_docs
                /\ pc' = IF r.kind \in {"raise", "fetchraise"} THEN "raised" ELSE "parse"
                /\ cause' = CASE r.kind = "raise" -> "ai"
                              [] r.kind = "fetchraise" -> "fetch"
                              [] OTHER -> cause
                /\ doc_idx' = doc_idx + 1
    /\ UNCHANGED <<base_url, max_urls, visited_urls, api_doc_urls, to_visit, tasks,
                   results, merged, rounds, classified, saw_external, saw_visited, docs_before>>
    /\ UNCHANGED call_vars

\* crawler.py 509, 448-490
CombineSpecs ==
    /\ pc = "parse"
    /\ doc_idx > Len(api_doc_urls)
    /\ docs_before' = api_docs
    /\ merged' = combine_specs(api_docs, base_url)
    /\ api_docs' = DocsAfterCombine(api_docs)
    /\ pc' = "done"
    /\ UNCHANGED crawl_vars
    /\ UNCHANGED call_vars

Next ==
    \/ CrawlSubpagesBegin
    \/ DispatchRound
    \/ \E i \in 1..Len(tasks) : ProcessPage(i)
    \/ GatherResults
    \/ CrawlSubpagesReturn
    \/ ParseApiPage
    \/ CombineSpecs

Spec == Init /\ [][Next]_vars

---------------------------------------------------------------------------
(* crawl() a second time on the same APICrawler *)

\* crawler.py 492-503: crawl() is entered again after it returned or raised; the
\* locals are new, self.visited_urls and self.api_docs are what __init__ and the
\* first invocation left (nothing assigns them again)
CrawlAgain ==
    /\ pc \in {"done", "raised"}
    /\ ~again
    /\ again' = TRUE
    /\ pc' = "start"
    /\ api_doc_urls' = << >>
    /\ doc_idx' = 1
    /\ rounds' = 0
    /\ cause' = "none"
    /\ UNCHANGED <<base_url, max_urls, visited_urls, api_docs, to_visit, tasks, results,
                   merged, classified, saw_external, saw_visited, docs_before,
                   html, answer, ai_called>>

NextTwice ==
    \/ Next
    \/ CrawlAgain

SpecTwice == Init /\ [][NextTwice]_vars

---------------------------------------------------------------------------
(* combine_specs on its own: any fragments, stored in any order *)

InitMerge ==
    /\ base_url = [host |-> BaseHost, path |-> 1, frag |-> ""]
    /\ max_urls = 0
    /\ visited_urls = {}
    /\ api_docs = << >>
    /\ api_doc_urls = << >>
    /\ to_visit = {}
    /\ tasks = << >>
    /\ results = << >>
    /\ pc = "parse"
    /\ doc_idx = 1
    /\ merged = NoDocument
    /\ rounds = 0
    /\ classified = {}
    /\ saw_external = FALSE
    /\ cause = "none"
    /\ docs_before = << >>
    /\ saw_visited = FALSE
    /\ again = FALSE
    /\ html = NoPage
    /\ answer = NoAnswer
    /\ ai_called = FALSE

\* crawler.py 507: self.api_docs[url] = spec, for the next page
StoreFragment ==
    /\ pc = "parse"
    /\ Len(api_docs) < MaxDocs
    /\ \E spec \in Fragments :
          api_docs' = DictSet(api_docs,
                              [host |-> BaseHost, path |-> Len(api_docs) + 1, frag |-> ""],
                              spec)
    /\ UNCHANGED <<pc, merged, docs_before>>
    /\ UNCHANGED crawl_vars
    /\ UNCHANGED call_vars

NextMerge ==
    \/ StoreFragment
    \/ CombineSpecs

SpecMerge == InitMerge /\ [][NextMerge]_vars

---------------------------------------------------------------------------
(* is_api_doc_page on its own: pages with one phrase in one place *)

\* the variables of the crawl as __init__ leaves them, for base URL http://a/1
FreshCrawler ==
    /\ base_url = [host |-> BaseHost, path |-> 1, frag |-> ""]
    /\ max_urls = 0
    /\ visited_urls = {}
    /\ api_docs = << >>
    /\ api_doc_urls = << >>
    /\ to_visit = {}
    /\ tasks = << >>
    /\ results = << >>
    /\ doc_idx = 1
    /\ merged = NoDocument
    /\ rounds = 0
    /\ classified = {}
    /\ saw_external = FALSE
    /\ cause = "none"
    /\ docs_before = << >>
    /\ saw_visited = FALSE
    /\ again = FALSE

\* a text without any indicator phrase, and the head of a longer heading
PlainText == <<"h", "e", "l", "l", "o">>
ShopPrefix == <<"U+6DD8", "U+5B9D", "U+5F00", "U+653E", "U+5E73", "U+53F0">>

\* every indicator phrase as the source writes it, in upper case, in lower case,
\* and one in title case; alone and at the end of a longer text
PhraseTexts ==
    UNION {{ind, upper(ind), lower(ind)} : ind \in api_indicators}
    \cup {<<"A", "P", "I", " ", "R", "e", "f", "e", "r", "e", "n", "c", "e">>}
Texts ==
    PhraseTexts \cup {ShopPrefix \o t : t \in PhraseTexts} \cup {PlainText}

\* a page: the text of its title, of its h1/h2/h3 headings in document order and
\* of the rest of it, and whether it has a code or pre element
ClassifyPages ==
    {[title |-> IF slot = "title" THEN t ELSE PlainText,
      headings |-> [i \in 1..n |-> PlainText]
                      \o (IF slot = "heading" THEN <<t>> ELSE << >>),
      body |-> IF slot = "body" THEN t ELSE PlainText,
      code |-> c] :
        t \in Texts, slot \in {"title", "heading", "body"}, n \in 0..MaxHeadings,
        c \in BOOLEAN}

InitClassify ==
    /\ FreshCrawler
    /\ pc = "classify"
    /\ html \in ClassifyPages
    /\ answer = NoAnswer
    /\ ai_called = FALSE

\* crawler.py 138-155: process_page parses the page and asks is_api_doc_page
Classify ==
    /\ pc = "classify"
    /\ answer' = is_api_doc_page(BeautifulSoup(html))
    /\ pc' = "classified"
    /\ UNCHANGED <<html, ai_called, again, api_docs, merged, docs_before>>
    /\ UNCHANGED crawl_vars

NextClassify == Classify

SpecClassify == InitClassify /\ [][NextClassify]_vars

---------------------------------------------------------------------------
(* extract_endpoint_info and parse_api_page on their own: one code block *)

\* crawler.py 267
HttpMethods ==
    <<<<"G", "E", "T">>, <<"P", "O", "S", "T">>,
      <<"P", "U", "T">>, <<"D", "E", "L", "E", "T", "E">>,
      <<"P", "A", "T", "C", "H">>>>

\* crawler.py 290-299
PathParam(param_name) ==
    [name |-> param_name, in |-> "path", required |-> TRUE, schema |-> [type |-> "string"]]

PathParameters(path) ==
    LET path_params == SelectSeq(split(path, "/"),
                                 LAMBDA p : Contains(p, <<"{">>) /\ Contains(p, <<"}">>))
    IN  [i \in 1..Len(path_params) |-> PathParam(strip(path_params[i], {"{", "}"}))]

\* crawler.py 304: description[:50] + '...' if len(description) > 50 else description
Summary(description) ==
    IF Len(description) > SummaryLength
    THEN SubSeq(description, 1, SummaryLength) \o <<".", ".", ".">>
    ELSE description

\* crawler.py 275-314: the endpoint made of a line of at least two words
Endpoint(method, parts, description) ==
    LET path_part == parts[2]
        path == split(path_part, "?")[1]
    IN  [method |-> method,
         path |-> path,
         summary |-> Summary(description),
         description |-> description,
         parameters |-> PathParameters(path),
         response |-> [schema |-> [type |-> "object"]]]

\* crawler.py 271-275: the first line from line l on that holds the method in
\* any letter case and has two words, or none
RECURSIVE ScanLines(_, _, _, _)
ScanLines(lines, l, method, description) ==
    IF l > Len(lines) THEN NoAnswer
    ELSE IF Contains(upper(lines[l]), method) /\ Len(Words(lines[l])) >= 2
         THEN Endpoint(method, Words(lines[l]), description)
         ELSE ScanLines(lines, l + 1, method, description)

\* crawler.py 267-316: the methods are tried in the order of the list, from k on
RECURSIVE ScanMethods(_, _, _)
ScanMethods(text, k, description) ==
    IF k > Len(HttpMethods) THEN NoAnswer
    ELSE IF Contains(upper(text), HttpMethods[k])
         THEN LET found == ScanLines(split(text, "\n"), 1, HttpMethods[k], description)
              IN  IF found # NoAnswer THEN found
                  ELSE ScanMethods(text, k + 1, description)
         ELSE ScanMethods(text, k + 1, description)

\* crawler.py 259-316; description is the text of the element before the block
extract_endpoint_info(text, description) == ScanMethods(text, 1, description)

\* lines of a code block
CodeLines ==
    {<<"G", "E", "T", " ", "/", "u", "s", "e", "r", "s", "/", "{", "i", "d", "}">>,
     <<"P", "O", "S", "T", " ", "/", "a", "?", "x", "=", "1">>,
     <<"c", "u", "r", "l", " ", "-", "X", " ", "G", "E", "T", " ", "/", "u", "s", "e",
       "r", "s">>,
     <<"g", "e", "t", " ", "/", "i", "t", "e", "m", "s">>,
     <<"w", "i", "d", "g", "e", "t", " ", "l", "i", "s", "t">>,
     <<"D", "E", "L", "E", "T", "E">>,
     <<"{", "i", "d", ":", " ", "1", "}">>}

\* the text before a block: none, a short one, one longer than a summary
Descriptions ==
    {<< >>, <<"L", "i", "s", "t", " ", "u", "s", "e", "r", "s">>,
     [i \in 1..(SummaryLength + 1) |-> "x"]}

CodeBlocks ==
    {Join(ls, "\n") : ls \in UNION {[1..n -> CodeLines] : n \in 1..MaxLines}}

InitExtract ==
    /\ FreshCrawler
    /\ pc = "extract"
    /\ html \in [block : CodeBlocks, description : Descriptions]
    /\ answer = NoAnswer
    /\ ai_called = FALSE

\* crawler.py 259-316
ExtractEndpointInfo ==
    /\ pc = "extract"
    /\ answer' = extract_endpoint_info(html.block, html.description)
    /\ pc' = "extracted"
    /\ UNCHANGED <<html, ai_called, again, api_docs, merged, docs_before>>
    /\ UNCHANGED crawl_vars

\* crawler.py 205-229: with a 200 response parse_with_ai is called for the page,
\* whatever its code blocks hold (the loop over them, 213-224, is commented out)
ParsePage ==
    /\ pc = "extract"
    /\ \E fetch \in FetchOutcomes, ai \in AiOutcomes, spec \in CrawlFragments :
          /\ answer' = parse_api_page(fetch, ai, spec)
          /\ ai_called' = (fetch \in {"ok", "nothtml"})
    /\ pc' = "parsed"
    /\ UNCHANGED <<html, again, api_docs, merged, docs_before>>
    /\ UNCHANGED crawl_vars

NextExtract ==
    \/ ExtractEndpointInfo
    \/ ParsePage

SpecExtract == InitExtract /\ [][NextExtract]_vars

---------------------------------------------------------------------------
(* Properties *)

\* crawl_subpages has returned its list
Returned == pc \in {"parse", "done", "raised"}

Range(s) == {s[i] : i \in 1..Len(s)}
Reverse(s) == [i \in 1..Len(s) |-> s[Len(s) + 1 - i]]
Count(x, s) == Cardinality({i \in 1..Len(s) : s[i] = x})
Keys(ps) == {ParamKey(ps[i]) : i \in 1..Len(ps)}
DuplicateFree(ps) == Cardinality(Keys(ps)) = Len(ps)
\* the <<path, method>> pairs that both fragments define
Shared(A, B) ==
    IF A.has_paths /\ B.has_paths
    THEN UNION {{<<p, m>> : m \in DOMAIN A.paths[p] \cap DOMAIN B.paths[p]} :
                    p \in DOMAIN A.paths \cap DOMAIN B.paths}
    ELSE {}

\* the pages of the site the traversal has reached from the base URL
ReachablePages == {StripFragment(u) : u \in visited_urls \cup to_visit}

\* C1: the list crawl_subpages returns never holds two entries that are equal
\* after the fragment is stripped from each, whatever the base URL and the links.
C1_NoDuplicateAfterStripping ==
    Returned =>
        \A i, j \in 1..Len(api_doc_urls) :
            i # j => StripFragment(api_doc_urls[i]) # StripFragment(api_doc_urls[j])

\* C2 as claimed: merging two fragments in the order [A, B] gives the same
\* document as merging them in the order [B, A], for any two fragments.
C2_MergeCommutative ==
    (pc = "done" /\ Len(docs_before) = 2) =>
        merged = combine_specs(Reverse(docs_before), base_url)

\* C2 as amended: merging [A, B] gives the same document as merging [B, A]
\* whenever every path and method that both fragments define carries the same
\* operation in both (in particular when they define none in common).
C2_MergeCommutesWhenSharedOperationsAgree ==
    (/\ pc = "done"
     /\ Len(docs_before) = 2
     /\ \A pm \in Shared(docs_before[1].spec, docs_before[2].spec) :
            docs_before[1].spec.paths[pm[1]][pm[2]] = docs_before[2].spec.paths[pm[1]][pm[2]])
    => merged = combine_specs(Reverse(docs_before), base_url)

\* two fragments were merged that agree on a shared operation with parameters,
\* and two that share a path but no method
C2_Witness ==
    /\ pc = "done"
    /\ Len(docs_before) = 2
    /\ docs_before[1].spec # docs_before[2].spec
    /\ docs_before[1].spec.has_paths /\ docs_before[2].spec.has_paths
    /\ DOMAIN docs_before[1].spec.paths \cap DOMAIN docs_before[2].spec.paths # {}
    /\ Shared(docs_before[1].spec, docs_before[2].spec) = {}
    /\ merged = combine_specs(Reverse(docs_before), base_url)
    /\ Cardinality(DOMAIN merged.paths["/users"]) = 2

\* C3: a failure of the AI service for a page (an exception, a timeout, an
\* unparsable answer) never raises out of parse_with_ai, parse_api_page or crawl.
C3_AiFailureNeverRaises == ~(pc = "raised" /\ cause = "ai")

\* C4: every URL of the list crawl_subpages returns is the URL of a page that was
\* fetched and classified as API documentation by is_api_doc_page.
C4_ReturnedUrlsAreClassified ==
    Returned => \A i \in 1..Len(api_doc_urls) : api_doc_urls[i] \in classified

C6_SameHostOnly ==
    \A u \in to_visit \cup visited_urls \cup Range(tasks) \cup Range(api_doc_urls) :
        Netloc(u) = Netloc(base_url)

\* a link to another host was found on a page, and the crawl went on to other pages
C6_Witness ==
    /\ saw_external
    /\ pc = "done"
    /\ Cardinality(visited_urls) >= 2

\* C7: without a page bound crawl_subpages ends with an empty frontier after at
\* most as many rounds as there are same-domain pages reachable from the base URL.
C7_RoundsWithinReachablePages ==
    (Returned /\ max_urls = 0) =>
        /\ to_visit = {}
        /\ rounds <= Cardinality(ReachablePages)

\* C8: a failed fetch of a page (transport error or another exception of the HTTP
\* get, non-200 status, non-HTML content) never propagates out of crawl().
C8_FetchFailureNeverRaises == ~(pc = "raised" /\ cause = "fetch")

\* C9: when two fragments define the same path and method with duplicate-free
\* parameter lists of disjoint (name, in) pairs, the merged parameter list holds
\* every parameter of both lists exactly once and nothing else.
C9_DisjointParametersUnion ==
    (pc = "done" /\ Len(docs_before) = 2) =>
        \A pm \in Shared(docs_before[1].spec, docs_before[2].spec) :
            LET A == docs_before[1].spec.paths[pm[1]][pm[2]].parameters
                B == docs_before[2].spec.paths[pm[1]][pm[2]].parameters
                M == merged.paths[pm[1]][pm[2]].parameters
            IN  (DuplicateFree(A) /\ DuplicateFree(B) /\ Keys(A) \cap Keys(B) = {}) =>
                    /\ Range(M) = Range(A) \cup Range(B)
                    /\ \A x \in Range(M) : Count(x, M) = 1

\* GET /users came from two pages with the disjoint parameters a and b
C9_Witness ==
    /\ pc = "done"
    /\ Len(docs_before) = 2
    /\ Defines(docs_before[1].spec, "/users", "get")
    /\ Defines(docs_before[2].spec, "/users", "get")
    /\ docs_before[1].spec.paths["/users"]["get"].parameters = <<Param("a", "query", TRUE)>>
    /\ docs_before[2].spec.paths["/users"]["get"].parameters = <<Param("b", "query", TRUE)>>
    /\ Len(merged.paths["/users"]["get"].parameters) = 2

\* C10: the summary, description and responses of a merged operation are those of
\* the first fragment, in the order of the collection, that defined its path and
\* method, for any number of fragments.
C10_FirstSeenWins ==
    pc = "done" =>
        \A p \in DOMAIN merged.paths : \A m \in DOMAIN merged.paths[p] :
            LET first == docs_before[FirstDefining(docs_before, p, m)].spec.paths[p][m]
                op == merged.paths[p][m]
            IN  /\ op.summary = first.summary
                /\ op.description = first.description
                /\ op.responses = first.responses

\* three fragments defined GET /users, the later two with other fields than the first
C10_Witness ==
    /\ pc = "done"
    /\ Len(docs_before) = 3
    /\ \A i \in 1..3 : Defines(docs_before[i].spec, "/users", "get")
    /\ \A i \in 2..3 :
          docs_before[i].spec.paths["/users"]["get"].summary
              # docs_before[1].spec.paths["/users"]["get"].summary
    /\ merged.paths["/users"]["get"].summary
          = docs_before[1].spec.paths["/users"]["get"].summary

\* C17: combine_specs leaves self.api_docs as it found it: after it returns every
\* stored fragment, the parameter list of each operation included, is what it
\* was before the call, also when fragments share a path and method.
C17_CombineLeavesFragmentsUnchanged == pc = "done" => api_docs = docs_before

\* C18: every parameter that a merge appends to an operation already present has
\* a (name, in) pair that no earlier entry of the merged list has, also when the
\* incoming list repeats a pair.
C18_AppendedParametersAreNew ==
    pc = "done" =>
        \A p \in DOMAIN merged.paths : \A m \in DOMAIN merged.paths[p] :
            LET first == docs_before[FirstDefining(docs_before, p, m)].spec.paths[p][m]
                M == merged.paths[p][m].parameters
            IN  \A j \in (Len(first.parameters) + 1)..Len(M) :
                    \A i \in 1..(j - 1) : ParamKey(M[i]) # ParamKey(M[j])

\* C14: rounds are separated by a barrier. While a task of a round is pending
\* every URL of the round is already in visited_urls and no link found so far
\* in the round is in visited_urls; and the round is left (results collected,
\* next round dispatched) only when every task of it has finished.
C14_RoundBarrier ==
    /\ [](pc = "gather" => /\ Range(tasks) \subseteq visited_urls
                           /\ to_visit \cap visited_urls = {})
    /\ [](pc # "gather" => tasks = << >>)
    /\ [][(pc = "gather" /\ pc' # "gather") =>
            \A i \in 1..Len(results) : results[i].kind # "pending"]_vars

\* a second round runs two tasks; one has finished while the other is pending
C14_Witness ==
    /\ pc = "gather"
    /\ rounds = 2
    /\ Len(tasks) = 2
    /\ \E i, j \in 1..2 : results[i].kind = "pending" /\ results[j].kind # "pending"

\* C15: in one traversal no URL of visited_urls is added to to_visit, visited_urls
\* never shrinks, and a round dispatches only URLs that were not visited before,
\* each once; so no URL is dispatched twice, whatever the order of the tasks.
C15_VisitedNeverRequeued ==
    [][/\ visited_urls \subseteq visited_urls'
       /\ (to_visit' \ to_visit) \cap visited_urls = {}
       /\ rounds' # rounds =>
            /\ Range(tasks') \cap visited_urls = {}
            /\ \A i, j \in 1..Len(tasks') : i # j => tasks'[i] # tasks'[j]]_vars

\* pages of a later round linked back to visited URLs, and the traversal ended
\* with every page fetched in its own round
C15_Witness ==
    /\ saw_visited
    /\ rounds >= 2
    /\ pc = "done"
    /\ Cardinality(visited_urls) >= 2

\* C16: every invocation of crawl() starts from an empty visited set and an empty
\* fragment collection, so that a second invocation on the same APICrawler
\* fetches the base URL again and repeats the first.
C16_InvocationStartsEmpty == pc = "start" => (visited_urls = {} /\ api_docs = << >>)

\* the text holds an indicator phrase of the vocabulary in some letter case
HoldsPhraseAnyCase(text) ==
    \E ind \in api_indicators : Contains(lower(text), lower(ind))

\* C12: a page whose title or one of whose h1/h2/h3 headings contains an indicator
\* phrase of the vocabulary, English or Chinese, in any letter case is classified
\* as API documentation by is_api_doc_page.
C12_PhraseInTitleOrHeadingClassifies ==
    (/\ pc = "classified"
     /\ \/ HoldsPhraseAnyCase(html.title)
        \/ \E i \in 1..Len(html.headings) : HoldsPhraseAnyCase(html.headings[i]))
    => answer = TRUE

IsEndpoint(a) == "method" \in DOMAIN a
\* the positions of the words of a line that are an HTTP method token, in any
\* letter case
MethodTokens(line) ==
    {i \in 1..Len(Words(line)) :
        \E k \in 1..Len(HttpMethods) : upper(Words(line)[i]) = HttpMethods[k]}
Least(S) == CHOOSE x \in S : \A y \in S : x <= y
\* the inner texts of the path segments that are wrapped in braces, in path order
BraceSegments(path) ==
    LET wrapped == SelectSeq(split(path, "/"),
                             LAMBDA p : Len(p) >= 2 /\ p[1] = "{" /\ p[Len(p)] = "}")
    IN  [i \in 1..Len(wrapped) |-> SubSeq(wrapped[i], 2, Len(wrapped[i]) - 1)]
\* some line of the block has a method token followed by another word
HasMethodPathLine(block) ==
    \E l \in 1..Len(split(block, "\n")) :
        \E i \in MethodTokens(split(block, "\n")[l]) : i < Len(Words(split(block, "\n")[l]))

\* C11: parse_api_page tries the heuristic over the code blocks first and calls
\* the AI service only for a page on which the heuristic found no endpoint; a page
\* whose code block has a method+path line is parsed without any AI call.
C11_AiOnlyAfterHeuristicFails ==
    (pc = "parsed" /\ ai_called) =>
        /\ extract_endpoint_info(html.block, html.description) = NoAnswer
        /\ ~HasMethodPathLine(html.block)

\* C13: extract_endpoint_info takes the endpoint of a block from its first line,
\* in line order, that holds an HTTP method token, and from no other line: the
\* method is that token, the path the word after it without its query string,
\* and the parameters are the brace-wrapped path segments, each required, in
\* the path, named by its inner text.
C13_EndpointFromFirstMethodLine ==
    pc = "extracted" =>
        LET lines == split(html.block, "\n")
            hits == {l \in 1..Len(lines) : MethodTokens(lines[l]) # {}}
        IN  IF hits = {} THEN answer = NoAnswer
            ELSE LET w == Words(lines[Least(hits)])
                     i == Least(MethodTokens(lines[Least(hits)]))
                 IN  i < Len(w) =>
                        /\ IsEndpoint(answer)
                        /\ lower(answer.method) = lower(w[i])
                        /\ answer.path = split(w[i + 1], "?")[1]
                        /\ answer.parameters =
                              [k \in 1..Len(BraceSegments(answer.path)) |->
                                  PathParam(BraceSegments(answer.path)[k])]

====
